---- MODULE Spec2Model ----
(***************************************************************************)
(* Model of the AMQP adapter of @moleculer/channels                        *)
(* (src/src/adapters/amqp.js): connection life cycle, subscribe /          *)
(* unsubscribe, the consumer handler's ack / retry / dead-letter / drop    *)
(* routing, and the in-flight message tracker of the base adapter.         *)
(*                                                                         *)
(* Names are sequences of tokens: <<"p", "DLQ">> stands for "p.DLQ" and    *)
(* <<>> for the empty string (the default exchange).                       *)
(***************************************************************************)
EXTENDS Integers, Sequences, FiniteSets, TLC

\* ------------------------------------------------------------------ bounds
MaxRetriesBound == 3  \* largest maxRetries a descriptor is given
MaxMsgs == 2          \* messages the application publishes
MaxDeliveries == 4    \* deliveries the broker makes in one behaviour
Prefetch == 2         \* unacknowledged deliveries per consumer (amqp.prefetch)
MaxConnections == 2   \* connections opened in one behaviour
MaxFaults == 1        \* broker-side failures (failed createChannel, assert, consume)
MaxTasks == 2         \* connect() tasks alive at the same time
MaxTags == 4          \* consumer tags the broker hands out
MaxNameLen == 3       \* tokens of a dead-letter name (bounds repeated prefixing)
MaxAttempts == 4      \* connection attempts (tryConnect calls) in one behaviour
MaxUrls == 3          \* longest connection URL list

\* ----------------------------------------------------------------- domains
ChanIds == {"A", "B"}
Null == -1                       \* null / undefined (handles, maxRetries, tags)
NoName == <<>>                   \* "" or undefined name
Prefixes == {NoName, <<"p">>}    \* opts.prefix (NoName: not configured)
Payloads == {"p1", "bad"}        \* message bytes; "bad" does not deserialize
CorrIds == {"", "k1"}            \* properties.correlationId ("" = absent)

VARIABLES
    opts,            \* adapter options (this.opts)
    chan,            \* the caller-owned Channel Descriptor objects
    connection,      \* this.connection (Null or a connection id)
    channel,         \* this.channel (Null or the id of the connection it belongs to)
    connected,       \* this.connected
    stopping,        \* this.stopping
    connectAttempt,  \* this.connectAttempt
    connectionCount, \* this.connectionCount
    subscriptions,   \* this.subscriptions: sequence (insertion order) of [id, consumerTag]
    activeMessages,  \* the Active-Message Tracker: [ChanIds -> set of message ids]
    queues,          \* broker: the durable queue of each channel
    bindings,        \* broker: the bindings [exchange, queue] that exist, by name
    consumers,       \* broker: live consumer registrations [tag, c, ch]
    openConns,       \* broker: connections that are open
    deliveries,      \* every delivery made so far, with what the handler did to it
    published,       \* number of messages the application has published
    nextTag,         \* broker: next consumer tag
    nextConn,        \* broker: id of the next connection
    subCall,         \* an application call of subscribe(chan): its position
    unsubCall,       \* an application call of unsubscribe(chan): its position
    connTask,        \* the connect() / tryConnect() task: its position
    faults,          \* broker-side failures injected so far
    pubCall,         \* the last application call of publish(): what it did
    discCall,        \* the application call of disconnect(): its position
    attempts         \* the URL index each tryConnect targeted, in order

adapterVars == <<opts, connection, channel, connected, stopping, connectAttempt,
                 connectionCount>>
brokerVars == <<queues, bindings, consumers, openConns, deliveries, published, nextTag,
               nextConn>>
vars == <<opts, chan, connection, channel, connected, stopping, connectAttempt,
          connectionCount, subscriptions, activeMessages, queues, bindings, consumers,
          openConns, deliveries, published, nextTag, nextConn, subCall, unsubCall,
          connTask, faults, pubCall, discCall, attempts>>
callVars == <<pubCall, discCall, attempts>>

\* ------------------------------------------------------- descriptors, options
\* deadLettering objects: enabled is "unset" (absent), "on" or "off"; an absent
\* name is NoName.
DeadLetterings ==
    { [enabled |-> "unset", queueName |-> NoName, exchangeName |-> NoName],
      [enabled |-> "off", queueName |-> NoName, exchangeName |-> NoName],
      [enabled |-> "on", queueName |-> <<"DLQ">>, exchangeName |-> NoName],
      [enabled |-> "on", queueName |-> <<"DLQ">>, exchangeName |-> <<"DLX">>] }

OptsDeadLetterings ==
    { [enabled |-> "off", queueName |-> <<"FAILED">>, exchangeName |-> NoName],
      [enabled |-> "on", queueName |-> <<"FAILED">>, exchangeName |-> NoName] }

MaxRetriesValues == {Null} \cup (0..MaxRetriesBound)

Descriptor(c, mr, dl) ==
    [name |-> <<c>>, group |-> "g", maxRetries |-> mr, deadLettering |-> dl]

DefaultDescriptor(c) ==
    Descriptor(c, Null, [enabled |-> "unset", queueName |-> NoName, exchangeName |-> NoName])

\* _.defaultsDeep({}, a, b): a's fields win, b fills the absent ones
DefaultsDeep(a, b) ==
    [enabled |-> IF a.enabled = "unset" THEN b.enabled ELSE a.enabled,
     queueName |-> IF a.queueName = NoName THEN b.queueName ELSE a.queueName,
     exchangeName |-> IF a.exchangeName = NoName THEN b.exchangeName ELSE a.exchangeName]

\* BaseAdapter.addPrefixTopic: `${prefix}.${name}` when a prefix is configured
addPrefixTopic(name) ==
    IF opts.prefix # NoName /\ name # NoName THEN opts.prefix \o name ELSE name

\* `${chan.group}.${chan.name}`
QueueName(c) == <<chan[c].group>> \o chan[c].name

\* what subscribe asserts on the broker, lines 254-270: the fan-out exchange
\* chan.name, the queue group.name and the binding between them. Asserting an
\* exchange, queue or binding that exists with the same arguments changes
\* nothing on the broker, so the broker's table is a set.
Binding(c) == [exchange |-> chan[c].name, queue |-> QueueName(c)]

\* ----------------------------------------------------- Active-Message Tracker
initChannelActiveMessages(am, c) == [am EXCEPT ![c] = {}]

addChannelActiveMessages(am, c, id) == [am EXCEPT ![c] = @ \cup {id}]

removeChannelActiveMessages(am, c, id) == [am EXCEPT ![c] = @ \ {id}]

stopChannelActiveMessages(am, c) == [am EXCEPT ![c] = {}]

getNumberOfChannelActiveMessages(c) == Cardinality(activeMessages[c])

\* --------------------------------------------------------------- this.subscriptions
SubIds == {subscriptions[i].id : i \in 1..Len(subscriptions)}

SubIndex(c) == CHOOSE i \in 1..Len(subscriptions) : subscriptions[i].id = c

SubscriptionsGet(c) == subscriptions[SubIndex(c)]

\* Map.set: a new key is appended, an existing key keeps its position
SubscriptionsSet(c, tag) ==
    IF c \in SubIds
    THEN [subscriptions EXCEPT ![SubIndex(c)].consumerTag = tag]
    ELSE Append(subscriptions, [id |-> c, consumerTag |-> tag])

\* ------------------------------------------------------------------- Init
NoTask == [pc |-> "idle", conn |-> Null, ch |-> Null, todo |-> <<>>]

NoCall == [pc |-> "idle", ch |-> Null, tag |-> Null, res |-> "none"]

Returned(res) == [NoCall EXCEPT !.res = res]

\* publish(): how it ended, and the calls it made on the serializer and on
\* channel.publish
NoPublish == [res |-> "none", serialized |-> 0, sent |-> 0, full |-> FALSE]

\* disconnect(): conn is the connection whose close() is awaited; path tells
\* how the call ended ("closed": close() resolved, "threw": close() rejected,
\* "nothing": there was no connection); early tells that another disconnect()
\* was called meanwhile and returned at line 209
NoDisconnect ==
    [pc |-> "idle", conn |-> Null, res |-> "none", path |-> "none", early |-> FALSE]

InitWith(optSet, chanSet) ==
    /\ opts \in optSet
    /\ chan \in chanSet
    /\ connection = Null
    /\ channel = Null
    /\ connected = FALSE
    /\ stopping = FALSE
    /\ connectAttempt = 0
    /\ connectionCount = 0
    /\ subscriptions = <<>>
    /\ activeMessages = [c \in ChanIds |-> {}]
    /\ queues = [c \in ChanIds |-> <<>>]
    /\ bindings = {}
    /\ consumers = {}
    /\ openConns = {}
    /\ deliveries = <<>>
    /\ published = 0
    /\ nextTag = 1
    /\ nextConn = 1
    /\ subCall = [c \in ChanIds |-> NoCall]
    /\ unsubCall = [c \in ChanIds |-> NoCall]
    /\ connTask = [t \in 1..MaxTasks |-> NoTask]
    /\ faults = 0
    /\ pubCall = NoPublish
    /\ discCall = NoDisconnect
    /\ attempts = <<>>

\* urls: 0 when amqp.url is not a list, else the length of the URL list
AllOpts ==
    [maxRetries : MaxRetriesValues, prefix : Prefixes, deadLettering : OptsDeadLetterings,
     urls : 0..MaxUrls]

AllChans ==
    { f \in [ChanIds -> [name : {<<c>> : c \in ChanIds}, group : {"g"},
                         maxRetries : MaxRetriesValues, deadLettering : DeadLetterings]] :
        \A c \in ChanIds : f[c].name = <<c>> }

Init == InitWith(AllOpts, AllChans)

\* ------------------------------------------------------------ channel handle
\* A call on this.channel throws when the handle is null or its channel is closed.
ChannelUsable == channel # Null /\ channel \in openConns

\* ---------------------------------------------------------------- messages
NoHeaders == [xcount |-> 0, custom |-> "", xorig |-> NoName]

AckOp(ch) ==
    [op |-> "ack", ch |-> ch, exchange |-> NoName, routingKey |-> NoName,
     content |-> "", headers |-> NoHeaders, res |-> TRUE, requeue |-> FALSE]

\* channel.nack(msg, false, false): no requeue
NackOp(ch) ==
    [op |-> "nack", ch |-> ch, exchange |-> NoName, routingKey |-> NoName,
     content |-> "", headers |-> NoHeaders, res |-> TRUE, requeue |-> FALSE]

PublishOp(ch, exchange, routingKey, content, headers, res) ==
    [op |-> "publish", ch |-> ch, exchange |-> exchange, routingKey |-> routingKey,
     content |-> content, headers |-> headers, res |-> res, requeue |-> FALSE]

\* serializer.deserialize(msg.content) throws on bytes it cannot decode
Deserializable(content) == content # "bad"

\* msg.properties.correlationId || `${consumerTag}:${deliveryTag}`
MessageId(msg, tag, dtag) ==
    IF msg.corr # ""
    THEN [corr |-> msg.corr, tag |-> 0, dtag |-> 0]
    ELSE [corr |-> "", tag |-> tag, dtag |-> dtag]

\* msg.properties.headers["x-redelivered-count"] || 1
RedeliveryCount(msg) == IF msg.headers.xcount = 0 THEN 1 ELSE msg.headers.xcount

\* !chan.maxRetries
NoRetries(c) == chan[c].maxRetries = Null \/ chan[c].maxRetries = 0

\* mutants of the exhaustion test: one delivery too late, one too early
RetriesExhaustedLate(c, rc) == chan[c].maxRetries > 0 /\ rc > chan[c].maxRetries

RetriesExhaustedEarly(c, rc) == chan[c].maxRetries > 0 /\ rc >= chan[c].maxRetries - 1

\* chan.maxRetries > 0 && redeliveryCount >= chan.maxRetries
RetriesExhausted(c, rc) == chan[c].maxRetries > 0 /\ rc >= chan[c].maxRetries

\* mutant: the exhausted message is sent back to the channel's own queue
DeadLetterPublishToQueue(c, msg, res) ==
    PublishOp(channel, NoName, QueueName(c), msg.content,
              [NoHeaders EXCEPT !.xorig = chan[c].name], res)

\* the dead-letter publish of an exhausted message, lines 336-345
DeadLetterPublish(c, msg, res) ==
    PublishOp(channel, chan[c].deadLettering.exchangeName, chan[c].deadLettering.queueName,
              msg.content, [NoHeaders EXCEPT !.xorig = chan[c].name], res)

\* mutant: the redelivered copy goes through the channel's fan-out exchange
RedeliverPublishToExchange(c, msg, res) ==
    PublishOp(channel, chan[c].name, NoName, msg.content,
              [msg.headers EXCEPT !.xcount = RedeliveryCount(msg) + 1], res)

\* mutant: the redelivered copy keeps the count it was received with
RedeliverPublishSameCount(c, msg, res) ==
    PublishOp(channel, NoName, QueueName(c), msg.content, msg.headers, res)

\* the redelivery publish, directly to the channel's queue, lines 365-369
RedeliverPublish(c, msg, res) ==
    PublishOp(channel, NoName, QueueName(c), msg.content,
              [msg.headers EXCEPT !.xcount = RedeliveryCount(msg) + 1], res)

\* mutant: the publish result is ignored
ThenAckAlways(pub) == <<pub, AckOp(channel)>>

\* res === false: throw, else ack (lines 346-349, 370-373)
ThenAck(pub) == IF pub.res THEN <<pub, AckOp(channel)>> ELSE <<pub>>

\* The catch block of the consumer handler after the tracker removal: the calls it
\* makes on this.channel, in order, and whether it throws.
HandlerCatch(c, msg, res) ==
    IF ~ChannelUsable THEN [ops |-> <<>>, threw |-> TRUE]
    ELSE LET drop == IF NoRetries(c) THEN <<NackOp(channel)>> ELSE <<>>
             route == IF RetriesExhausted(c, RedeliveryCount(msg))
                      THEN IF chan[c].deadLettering.enabled = "on"
                           THEN ThenAck(DeadLetterPublish(c, msg, res))
                           ELSE <<NackOp(channel)>>
                      ELSE ThenAck(RedeliverPublish(c, msg, res))
             ops == drop \o route
         IN [ops |-> ops,
             threw |-> ops[Len(ops)].op = "publish"]

\* The try block after the handler returned: channel.ack(msg); a throw of ack
\* lands in the catch block.
HandlerSuccess(c, msg, res) ==
    IF ChannelUsable THEN [ops |-> <<AckOp(channel)>>, threw |-> FALSE]
    ELSE HandlerCatch(c, msg, res)

\* ------------------------------------------------------------------ broker
\* accepted publishes, routed: the default exchange routes by queue name, a
\* channel's fan-out exchange to the queue bound to it. The handler's publishes
\* pass only headers as options, so their copies carry no correlation id.
RouteOne(qs, p, lin, corr) ==
    [c \in ChanIds |->
        IF /\ p.op = "publish" /\ p.res /\ Binding(c) \in bindings
           /\ \/ p.exchange = NoName /\ p.routingKey = QueueName(c)
              \/ p.exchange = chan[c].name /\ p.routingKey = NoName
        THEN Append(qs[c], [lin |-> lin, content |-> p.content, corr |-> corr,
                            headers |-> p.headers])
        ELSE qs[c]]

RECURSIVE Route(_, _, _)
Route(qs, ops, lin) ==
    IF ops = <<>> THEN qs
    ELSE Route(RouteOne(qs, Head(ops), lin, ""), Tail(ops), lin)

\* an ack or nack settles the delivery when issued on the channel that delivered it
Settles(d, ops) == \E i \in 1..Len(ops) : ops[i].op \in {"ack", "nack"} /\ ops[i].ch = d.ch

Unacked(tag) ==
    {i \in 1..Len(deliveries) : deliveries[i].tag = tag /\ deliveries[i].broker = "unacked"}

DeliveryTag(ch) ==
    1 + Cardinality({i \in 1..Len(deliveries) : deliveries[i].ch = ch})

\* --------------------------------------------------------- consumer handler
\* mutant: the id is removed after the routing calls, so a throw skips it
TrackerSettledAfterRouting(am, c, id, r) ==
    IF r.threw THEN am ELSE removeChannelActiveMessages(am, c, id)

\* the tracker once the handler has settled, lines 318 and 320: the id is
\* removed after the ack of the try block and, in the catch block, before any
\* routing call is made, so it is removed whatever the routing result r is
TrackerSettled(am, c, id, r) == removeChannelActiveMessages(am, c, id)

\* mutant: the wait of unsubscribe spins on the tracker and holds the event loop
EventLoopHeldByWait == \A c \in ChanIds : unsubCall[c].pc # "wait"

\* whether the consumer callbacks can run. The wait of unsubscribe, lines
\* 402-409, re-arms a 1000 ms timer and returns, so no call of the adapter
\* holds the event loop between two polls.
EventLoopFree == TRUE

\* createConsumerHandler(chan), up to `await chan.handler(content)`: the broker
\* delivers the head of the queue to a live consumer; the message is tracked;
\* a deserialization failure runs the catch block at once.
Receive(c, tag, res) ==
    /\ EventLoopFree
    /\ Len(deliveries) < MaxDeliveries
    /\ queues[c] # <<>>
    /\ \E k \in consumers :
        /\ k.tag = tag /\ k.c = c /\ k.ch \in openConns
        /\ Cardinality(Unacked(tag)) < Prefetch
        /\ LET msg == Head(queues[c])
               dtag == DeliveryTag(k.ch)
               id == MessageId(msg, tag, dtag)
               d == [c |-> c, tag |-> tag, ch |-> k.ch, dtag |-> dtag, msg |-> msg,
                     id |-> id, state |-> "handling", invoked |-> TRUE, ok |-> FALSE,
                     ops |-> <<>>, threw |-> FALSE, broker |-> "unacked"]
               r == HandlerCatch(c, msg, res)
           IN IF Deserializable(msg.content)
              THEN /\ activeMessages' = addChannelActiveMessages(activeMessages, c, id)
                   /\ deliveries' = Append(deliveries, d)
                   /\ queues' = [queues EXCEPT ![c] = Tail(@)]
              ELSE /\ activeMessages' =
                        TrackerSettled(addChannelActiveMessages(activeMessages, c, id),
                                       c, id, r)
                   /\ deliveries' = Append(deliveries,
                        [d EXCEPT !.state = "settled", !.invoked = FALSE, !.ops = r.ops,
                                  !.threw = r.threw,
                                  !.broker = IF Settles(d, r.ops) THEN "settled" ELSE "unacked"])
                   /\ queues' = Route([queues EXCEPT ![c] = Tail(@)], r.ops, msg.lin)
    /\ UNCHANGED <<callVars, adapterVars, chan, subscriptions, bindings, consumers, openConns,
                   published, nextTag, nextConn, subCall, unsubCall, connTask, faults>>

\* The handler of delivery i settles (ok: it returned, else it failed); res is
\* what channel.publish returns if the handler publishes (false: buffer full).
Settle(i, ok, res) ==
    /\ EventLoopFree
    /\ i \in 1..Len(deliveries)
    /\ deliveries[i].state = "handling"
    /\ LET d == deliveries[i]
           r == IF ok THEN HandlerSuccess(d.c, d.msg, res) ELSE HandlerCatch(d.c, d.msg, res)
       IN /\ activeMessages' = TrackerSettled(activeMessages, d.c, d.id, r)
          /\ deliveries' = [deliveries EXCEPT ![i] =
                [d EXCEPT !.state = "settled", !.ok = ok, !.ops = r.ops, !.threw = r.threw,
                          !.broker = IF d.broker = "unacked" /\ Settles(d, r.ops)
                                     THEN "settled" ELSE d.broker]]
          /\ queues' = Route(queues, r.ops, d.msg.lin)
    /\ UNCHANGED <<callVars, adapterVars, chan, subscriptions, bindings, consumers, openConns,
                   published, nextTag, nextConn, subCall, unsubCall, connTask, faults>>

\* ------------------------------------------------------------------ publish
\* mutant: the stopping flag is not looked at
PublishOutcomeNoStoppingCheck(res) ==
    IF ~ChannelUsable THEN "threw"
    ELSE IF res THEN "ok" ELSE "backpressure"

\* mutant: the answer of channel.publish is not looked at
PublishOutcomeIgnoresResult(res) ==
    IF stopping THEN "noop"
    ELSE IF ~ChannelUsable THEN "threw"
    ELSE "ok"

\* publish(), lines 440-460: how the call ends. "noop": returned at once;
\* "threw": the call on this.channel threw (null handle or closed channel);
\* "backpressure": channel.publish answered false and the MoleculerError is
\* thrown; "ok": the transport took the message. There is no test of
\* this.connected.
PublishOutcome(res) ==
    IF stopping THEN "noop"
    ELSE IF ~ChannelUsable THEN "threw"
    ELSE IF res THEN "ok" ELSE "backpressure"

\* publish(channelName, payload, opts) by the application (opts.raw not set),
\* with the transport's answer res; a message the transport accepted is routed
\* by the fan-out exchange. serialized counts the serializer calls, sent the
\* channel.publish calls the transport answered, full tells that it answered
\* false (write buffer full).
Publish(c, payload, corr, custom, res) ==
    /\ published < MaxMsgs
    /\ published' = published + 1
    /\ LET out == PublishOutcome(res)
       IN /\ pubCall' = [res |-> out,
                         serialized |-> IF out = "noop" THEN 0 ELSE 1,
                         sent |-> IF out \in {"ok", "backpressure"} THEN 1 ELSE 0,
                         full |-> out \in {"ok", "backpressure"} /\ ~res]
          /\ queues' = IF out = "ok"
                       THEN RouteOne(queues,
                                PublishOp(channel, chan[c].name, NoName, payload,
                                          [NoHeaders EXCEPT !.custom = custom], res),
                                published + 1, corr)
                       ELSE queues
    /\ UNCHANGED <<discCall, attempts, adapterVars, chan, subscriptions, activeMessages,
                   bindings, consumers, openConns, deliveries, nextTag, nextConn, subCall,
                   unsubCall, connTask, faults>>

\* ---------------------------------------------------------------- subscribe
\* mutant: the channel name is prefixed in place as well
SubscribeDefaultsRenames(c) ==
    LET dl == DefaultsDeep(chan[c].deadLettering, opts.deadLettering)
    IN [chan EXCEPT
          ![c].name = addPrefixTopic(@),
          ![c].maxRetries = IF @ = Null THEN opts.maxRetries ELSE @,
          ![c].deadLettering = dl]

\* subscribe(chan), lines 237-244: the defaults are back-filled on the caller's
\* descriptor object, and the dead-letter names are prefixed, in place.
SubscribeDefaults(c) ==
    LET dl == DefaultsDeep(chan[c].deadLettering, opts.deadLettering)
    IN [chan EXCEPT
          ![c].maxRetries = IF @ = Null THEN opts.maxRetries ELSE @,
          ![c].deadLettering =
              IF dl.enabled = "on"
              THEN [dl EXCEPT !.queueName = addPrefixTopic(@),
                              !.exchangeName = addPrefixTopic(@)]
              ELSE dl]

\* the model explores a subscribe only while tags and name lengths are in bounds
SubscribeInBounds(c) ==
    /\ nextTag <= MaxTags
    /\ Len(chan[c].deadLettering.queueName) < MaxNameLen
    /\ Len(chan[c].deadLettering.exchangeName) < MaxNameLen

\* an awaited broker call on channel ch succeeds when the broker answers ok
\* and the channel is still open
Answered(ch, ok) == ok /\ ch \in openConns

Fault(ok) ==
    IF ok THEN faults' = faults ELSE faults < MaxFaults /\ faults' = faults + 1

\* lines 268-285, after assertQueue resolved: bindQueue, tracker init, consume
SubscribeBind(c) ==
    /\ bindings' = bindings \cup {Binding(c)}
    /\ activeMessages' = initChannelActiveMessages(activeMessages, c)

\* line 287, after consume resolved with a consumer tag
SubscribeRegister(c, ch) ==
    /\ consumers' = consumers \cup {[tag |-> nextTag, c |-> c, ch |-> ch]}
    /\ nextTag' = nextTag + 1
    /\ subscriptions' = SubscriptionsSet(c, nextTag)

\* The application calls subscribe(chan): lines 231-266, up to the awaited
\* assertQueue; assertExchange throws on an unusable channel handle.
SubscribeCall(c) ==
    /\ subCall[c].pc = "idle"
    /\ SubscribeInBounds(c)
    /\ chan' = SubscribeDefaults(c)
    /\ subCall' = [subCall EXCEPT ![c] =
            IF ChannelUsable
            THEN [NoCall EXCEPT !.pc = "assertQueue", !.ch = channel]
            ELSE Returned("threw")]
    /\ UNCHANGED <<callVars, adapterVars, subscriptions, activeMessages, brokerVars, unsubCall,
                   connTask, faults>>

SubscribeAsserted(c, ok) ==
    /\ subCall[c].pc = "assertQueue"
    /\ Fault(ok)
    /\ IF Answered(subCall[c].ch, ok) /\ ChannelUsable
       THEN /\ SubscribeBind(c)
            /\ subCall' = [subCall EXCEPT ![c] = [@ EXCEPT !.pc = "consume", !.ch = channel]]
       ELSE /\ subCall' = [subCall EXCEPT ![c] = Returned("threw")]
            /\ UNCHANGED <<bindings, activeMessages>>
    /\ UNCHANGED <<callVars, adapterVars, chan, subscriptions, queues, consumers, openConns,
                   deliveries, published, nextTag, nextConn, unsubCall, connTask>>

\* mutant: the table entry is written before the consume is known to have
\* succeeded
SubscribeConsumedEarlySet(c, ok) ==
    /\ subCall[c].pc = "consume"
    /\ Fault(ok)
    /\ IF Answered(subCall[c].ch, ok)
       THEN /\ SubscribeRegister(c, subCall[c].ch)
            /\ subCall' = [subCall EXCEPT ![c] = Returned("ok")]
       ELSE /\ subCall' = [subCall EXCEPT ![c] = Returned("threw")]
            /\ subscriptions' = SubscriptionsSet(c, Null)
            /\ UNCHANGED <<consumers, nextTag>>
    /\ UNCHANGED <<callVars, adapterVars, chan, activeMessages, queues, bindings, openConns,
                   deliveries, published, nextConn, unsubCall, connTask>>

\* consume settled, lines 281-293
SubscribeConsumed(c, ok) ==
    /\ subCall[c].pc = "consume"
    /\ Fault(ok)
    /\ IF Answered(subCall[c].ch, ok)
       THEN /\ SubscribeRegister(c, subCall[c].ch)
            /\ subCall' = [subCall EXCEPT ![c] = Returned("ok")]
       ELSE /\ subCall' = [subCall EXCEPT ![c] = Returned("threw")]
            /\ UNCHANGED <<consumers, nextTag, subscriptions>>
    /\ UNCHANGED <<callVars, adapterVars, chan, activeMessages, queues, bindings, openConns,
                   deliveries, published, nextConn, unsubCall, connTask>>

\* ------------------------------------------------------- connect / tryConnect
FreeTasks == {t \in 1..MaxTasks : connTask[t].pc = "idle"}

\* mutant: the index is taken from the attempt number as it is
UrlIndexOffByOne(k) == k % opts.urls

\* mutant: the same URL every time
UrlIndexStuck(k) == 0

\* (this.connectAttempt - 1) % uri.length, line 140
UrlIndex(k) == (k - 1) % opts.urls

\* tryConnect, lines 137-145: pick the URL, call Amqplib.connect
TryConnectStart(t) ==
    /\ Len(attempts) < MaxAttempts
    /\ connectAttempt' = IF opts.urls > 0 THEN connectAttempt + 1 ELSE connectAttempt
    /\ attempts' = Append(attempts, IF opts.urls > 0 THEN UrlIndex(connectAttempt') ELSE 0)
    /\ connTask' = [connTask EXCEPT ![t] = [NoTask EXCEPT !.pc = "connecting"]]

\* mutant: connect() gives up after a failed tryConnect
RetryNever == NoTask

\* connect()'s catch, lines 120-126: the next tryConnect is scheduled
RetryLater == [NoTask EXCEPT !.pc = "timer"]

\* the application calls connect() once, on the fresh adapter
Connect(t) ==
    /\ nextConn = 1
    /\ \A u \in 1..MaxTasks : connTask[u].pc = "idle"
    /\ t = CHOOSE u \in FreeTasks : TRUE
    /\ TryConnectStart(t)
    /\ UNCHANGED <<pubCall, discCall, opts, chan, connection, channel, connected, stopping,
                   connectionCount, subscriptions, activeMessages, brokerVars, subCall,
                   unsubCall, faults>>

\* connect(), lines 120-126, and the close handler's timer, lines 158-161: after
\* 2000 ms the next tryConnect starts
Reconnecting(t) ==
    /\ connTask[t].pc = "timer"
    /\ nextConn <= MaxConnections
    /\ TryConnectStart(t)
    /\ UNCHANGED <<pubCall, discCall, opts, chan, connection, channel, connected, stopping,
                   connectionCount, subscriptions, activeMessages, brokerVars, subCall,
                   unsubCall, faults>>

\* Amqplib.connect settles, lines 145-175: on success the handle and the flag
\* are set and createChannel is called; a rejection goes to connect()'s catch.
Connected(t, ok) ==
    /\ connTask[t].pc = "connecting"
    /\ IF ok
       THEN /\ nextConn <= MaxConnections
            /\ connection' = nextConn
            /\ connected' = TRUE
            /\ openConns' = openConns \cup {nextConn}
            /\ nextConn' = nextConn + 1
            /\ connTask' = [connTask EXCEPT ![t] =
                                [@ EXCEPT !.pc = "createChannel", !.conn = nextConn]]
       ELSE /\ connTask' = [connTask EXCEPT ![t] = RetryLater]
            /\ UNCHANGED <<connection, connected, openConns, nextConn>>
    /\ UNCHANGED <<callVars, opts, chan, channel, stopping, connectAttempt, connectionCount,
                   subscriptions, activeMessages, queues, bindings, consumers, deliveries,
                   published, nextTag, subCall, unsubCall, faults>>

\* resubscribeAllChannels, lines 424-429: the next entry of the snapshot is
\* subscribed (its synchronous part, lines 237-266), or the replay is complete
ReplayNext(t, todo, ch) ==
    IF todo = <<>>
    THEN /\ connTask' = [connTask EXCEPT ![t] = NoTask]
         /\ chan' = chan
    ELSE /\ SubscribeInBounds(Head(todo))
         /\ chan' = SubscribeDefaults(Head(todo))
         /\ connTask' = [connTask EXCEPT ![t] =
                IF ch # Null /\ ch \in openConns
                THEN [@ EXCEPT !.pc = "replayAssert", !.ch = ch, !.todo = todo]
                ELSE RetryLater]

SubscriptionIds == [i \in 1..Len(subscriptions) |-> subscriptions[i].id]

\* mutant: the second connection is not taken for a reconnection either
IsReconnectLate(n) == n > 2

\* const isReconnect = this.connectionCount > 1, line 199
IsReconnect(n) == n > 1

\* createChannel settles, lines 175-202: the channel handle is set,
\* connectionCount is incremented and a reconnection replays the subscriptions
ChannelCreated(t, ok) ==
    /\ connTask[t].pc = "createChannel"
    /\ Fault(ok)
    /\ IF Answered(connTask[t].conn, ok)
       THEN /\ channel' = connTask[t].conn
            /\ connectionCount' = connectionCount + 1
            /\ IF IsReconnect(connectionCount + 1)
               THEN ReplayNext(t, SubscriptionIds, connTask[t].conn)
               ELSE ReplayNext(t, <<>>, connTask[t].conn)
       ELSE /\ connTask' = [connTask EXCEPT ![t] = RetryLater]
            /\ UNCHANGED <<channel, connectionCount, chan>>
    /\ UNCHANGED <<callVars, opts, connection, connected, stopping, connectAttempt, subscriptions,
                   activeMessages, brokerVars, subCall, unsubCall>>

\* the replayed subscribe after its assertQueue settled; a failure makes
\* tryConnect reject, and connect() retries after the delay
ReplayAsserted(t, ok) ==
    /\ connTask[t].pc = "replayAssert"
    /\ Fault(ok)
    /\ IF Answered(connTask[t].ch, ok) /\ ChannelUsable
       THEN /\ SubscribeBind(Head(connTask[t].todo))
            /\ connTask' = [connTask EXCEPT ![t] = [@ EXCEPT !.pc = "replayConsume",
                                                              !.ch = channel]]
       ELSE /\ connTask' = [connTask EXCEPT ![t] = RetryLater]
            /\ UNCHANGED <<bindings, activeMessages>>
    /\ UNCHANGED <<callVars, adapterVars, chan, subscriptions, queues, consumers, openConns,
                   deliveries, published, nextTag, nextConn, subCall, unsubCall>>

\* the replayed subscribe after its consume settled, then the next entry
ReplayConsumed(t, ok) ==
    /\ connTask[t].pc = "replayConsume"
    /\ Fault(ok)
    /\ IF Answered(connTask[t].ch, ok)
       THEN /\ SubscribeRegister(Head(connTask[t].todo), connTask[t].ch)
            /\ ReplayNext(t, Tail(connTask[t].todo), channel)
       ELSE /\ connTask' = [connTask EXCEPT ![t] = RetryLater]
            /\ UNCHANGED <<consumers, nextTag, subscriptions, chan>>
    /\ UNCHANGED <<callVars, adapterVars, activeMessages, queues, bindings, openConns,
                   deliveries, published, nextConn, subCall, unsubCall>>

\* messages of a closed channel that were not acknowledged go back to the queue
RequeueIdx(k) ==
    {i \in 1..Len(deliveries) : deliveries[i].ch = k /\ deliveries[i].broker = "unacked"}

RECURSIVE Requeue(_, _)
Requeue(qs, idx) ==
    IF idx = {} THEN qs
    ELSE LET i == CHOOSE j \in idx : \A l \in idx : j >= l
             d == deliveries[i]
         IN Requeue([qs EXCEPT ![d.c] = <<d.msg>> \o @], idx \ {i})

\* Broker side of the end of connection k: its consumers end and its
\* unacknowledged messages are requeued.
BrokerClose(k) ==
    /\ openConns' = openConns \ {k}
    /\ consumers' = {x \in consumers : x.ch # k}
    /\ queues' = Requeue(queues, RequeueIdx(k))
    /\ deliveries' = [i \in 1..Len(deliveries) |->
                        IF i \in RequeueIdx(k)
                        THEN [deliveries[i] EXCEPT !.broker = "requeued"]
                        ELSE deliveries[i]]

\* The connection k is lost. Adapter side, the "close" handler of lines
\* 154-165: connected is cleared and, unless stopping, a reconnect is scheduled.
ConnectionClosed(k) ==
    /\ k \in openConns
    /\ BrokerClose(k)
    /\ connected' = FALSE
    /\ IF stopping
       THEN connTask' = connTask
       ELSE /\ FreeTasks # {}
            /\ connTask' = [connTask EXCEPT ![CHOOSE u \in FreeTasks : TRUE] =
                                [NoTask EXCEPT !.pc = "timer"]]
    /\ UNCHANGED <<callVars, opts, chan, connection, channel, stopping, connectAttempt,
                   connectionCount, subscriptions, activeMessages, bindings, published,
                   nextTag, nextConn, subCall, unsubCall, faults>>

\* --------------------------------------------------------------- disconnect
\* disconnect(), lines 209-215. A call made while stopping is set returns at
\* once (early). Else stopping is set; with an open connection its close() is
\* awaited; with no connection, or with one that is closed already (close()
\* rejects and the catch logs it, path "threw"), line 222 clears stopping
\* again at once and the handles stay as they are.
DisconnectCall ==
    /\ discCall.pc \in {"idle", "closing"}
    /\ IF stopping
       THEN /\ discCall' = [discCall EXCEPT !.early = TRUE]
            /\ stopping' = stopping
       ELSE /\ discCall.pc = "idle"
            /\ IF connection # Null /\ connection \in openConns
               THEN /\ stopping' = TRUE
                    /\ discCall' = [NoDisconnect EXCEPT !.pc = "closing",
                                                        !.conn = connection]
               ELSE /\ stopping' = FALSE
                    /\ discCall' = [NoDisconnect EXCEPT
                                       !.res = "ok",
                                       !.path = IF connection = Null THEN "nothing"
                                                ELSE "threw"]
    /\ UNCHANGED <<pubCall, attempts, opts, chan, connection, channel, connected,
                   connectAttempt, connectionCount, subscriptions, activeMessages,
                   brokerVars, subCall, unsubCall, connTask, faults>>

\* mutant: the flag is not reset after the close
DisconnectClosedKeepsStopping ==
    /\ discCall.pc = "closing"
    /\ BrokerClose(discCall.conn)
    /\ connected' = IF discCall.conn \in openConns THEN FALSE ELSE connected
    /\ connection' = Null
    /\ channel' = Null
    /\ stopping' = stopping
    /\ discCall' = [discCall EXCEPT !.pc = "idle", !.conn = Null, !.res = "ok",
                                    !.path = "closed"]
    /\ UNCHANGED <<pubCall, attempts, opts, chan, connectAttempt, connectionCount,
                   subscriptions, activeMessages, bindings, published, nextTag, nextConn,
                   subCall, unsubCall, connTask, faults>>

\* connection.close() settles, lines 215-222: the broker ends the connection,
\* the "close" handler runs with stopping set (no reconnect is scheduled), then
\* the handles are cleared and stopping is reset.
DisconnectClosed ==
    /\ discCall.pc = "closing"
    /\ BrokerClose(discCall.conn)
    /\ connected' = IF discCall.conn \in openConns THEN FALSE ELSE connected
    /\ connection' = Null
    /\ channel' = Null
    /\ stopping' = FALSE
    /\ discCall' = [discCall EXCEPT !.pc = "idle", !.conn = Null, !.res = "ok",
                                    !.path = "closed"]
    /\ UNCHANGED <<pubCall, attempts, opts, chan, connectAttempt, connectionCount,
                   subscriptions, activeMessages, bindings, published, nextTag, nextConn,
                   subCall, unsubCall, connTask, faults>>

\* -------------------------------------------------------------- unsubscribe
\* unsubscribe(chan), lines 387-388: the consumer tag is read from the
\* subscription table and channel.cancel is called
UnsubscribeCall(c) ==
    /\ unsubCall[c].pc = "idle"
    /\ unsubCall' = [unsubCall EXCEPT ![c] =
            IF c \in SubIds /\ ChannelUsable
            THEN [NoCall EXCEPT !.pc = "cancel", !.ch = channel,
                         !.tag = SubscriptionsGet(c).consumerTag]
            ELSE Returned("threw")]
    /\ UNCHANGED <<callVars, adapterVars, chan, subscriptions, activeMessages, brokerVars, subCall,
                   connTask, faults>>

\* mutant: the promise resolves without looking at the tracker
CheckPendingMessagesNoWait(c) ==
    /\ activeMessages' = stopChannelActiveMessages(activeMessages, c)
    /\ unsubCall' = [unsubCall EXCEPT ![c] = Returned("ok")]

\* checkPendingMessages, lines 391-414
CheckPendingMessages(c) ==
    IF getNumberOfChannelActiveMessages(c) = 0
    THEN /\ activeMessages' = stopChannelActiveMessages(activeMessages, c)
         /\ unsubCall' = [unsubCall EXCEPT ![c] = Returned("ok")]
    ELSE /\ activeMessages' = activeMessages
         /\ unsubCall' = [unsubCall EXCEPT ![c] = [@ EXCEPT !.pc = "wait"]]

\* channel.cancel settled, lines 388-416: the broker ended the consumer of that
\* tag; the first check of the pending messages runs at once
UnsubscribeCancelled(c) ==
    /\ unsubCall[c].pc = "cancel"
    /\ IF unsubCall[c].ch \in openConns
       THEN /\ consumers' = {x \in consumers : x.tag # unsubCall[c].tag}
            /\ CheckPendingMessages(c)
       ELSE /\ unsubCall' = [unsubCall EXCEPT ![c] = Returned("threw")]
            /\ UNCHANGED <<consumers, activeMessages>>
    /\ UNCHANGED <<callVars, adapterVars, chan, subscriptions, queues, bindings, openConns,
                   deliveries, published, nextTag, nextConn, subCall, connTask, faults>>

\* the 1000 ms timer of line 409 fires
UnsubscribePoll(c) ==
    /\ unsubCall[c].pc = "wait"
    /\ CheckPendingMessages(c)
    /\ UNCHANGED <<callVars, adapterVars, chan, subscriptions, brokerVars, subCall, connTask, faults>>

\* ------------------------------------------------------------ specifications
\* Message processing on one channel over a stable connection: the adapter
\* connects, channel A is subscribed, messages are published, delivered and
\* settled.
MsgOpts ==
    { o \in AllOpts : /\ o.urls = 0
                      /\ o.maxRetries \in {Null, 2}
                      /\ (o.maxRetries = Null) = (o.prefix = NoName)
                      /\ (o.maxRetries = Null) = (o.deadLettering.enabled = "off") }

MsgChans == {f \in AllChans : f["B"] = DefaultDescriptor("B")}

InitMsg == InitWith(MsgOpts, MsgChans)

NextMsg ==
    \/ \E t \in 1..MaxTasks : Connect(t)
    \/ \E t \in 1..MaxTasks : Connected(t, TRUE)
    \/ \E t \in 1..MaxTasks : ChannelCreated(t, TRUE)
    \/ subscriptions = <<>> /\ ChannelUsable /\ SubscribeCall("A")
    \/ SubscribeAsserted("A", TRUE)
    \/ SubscribeConsumed("A", TRUE)
    \/ \E payload \in Payloads : ChannelUsable /\ Publish("A", payload, "", "h", TRUE)
    \/ \E tag \in 1..MaxTags, res \in BOOLEAN : Receive("A", tag, res)
    \/ \E i \in 1..MaxDeliveries, ok \in BOOLEAN, res \in BOOLEAN : Settle(i, ok, res)

SpecMsg == InitMsg /\ [][NextMsg]_vars

\* Graceful unsubscribe over a stable connection: both channels are subscribed
\* once, messages (two of them may share a correlation id) are handled
\* concurrently, and the application unsubscribes.
SubOpts ==
    { o \in AllOpts : /\ o.urls = 0 /\ o.maxRetries = 1 /\ o.prefix = NoName
                      /\ o.deadLettering.enabled = "off" }

SubChans == {f \in AllChans : \A c \in ChanIds : f[c] = DefaultDescriptor(c)}

InitSub == InitWith(SubOpts, SubChans)

NextSub ==
    \/ \E t \in 1..MaxTasks : Connect(t)
    \/ \E t \in 1..MaxTasks : Connected(t, TRUE)
    \/ \E t \in 1..MaxTasks : ChannelCreated(t, TRUE)
    \/ \E c \in ChanIds : c \notin SubIds /\ ChannelUsable /\ SubscribeCall(c)
    \/ \E c \in ChanIds : SubscribeAsserted(c, TRUE)
    \/ \E c \in ChanIds : SubscribeConsumed(c, TRUE)
    \/ \E c \in ChanIds, corr \in CorrIds :
          c \in SubIds /\ ChannelUsable /\ Publish(c, "p1", corr, "", TRUE)
    \/ \E c \in ChanIds, tag \in 1..MaxTags : Receive(c, tag, TRUE)
    \/ \E i \in 1..MaxDeliveries, ok \in BOOLEAN : Settle(i, ok, TRUE)
    \/ \E c \in ChanIds : unsubCall[c].res = "none" /\ UnsubscribeCall(c)
    \/ \E c \in ChanIds : UnsubscribeCancelled(c)
    \/ \E c \in ChanIds : UnsubscribePoll(c)

SpecSub == InitSub /\ [][NextSub]_vars

\* Connection loss and reconnection: the subscriptions are replayed on the new
\* connection while handlers of earlier deliveries may still run; the broker may
\* refuse a connection or fail an assert or a consume.
ReOpts ==
    { o \in AllOpts : /\ o.urls = 0 /\ o.maxRetries = 1
                      /\ o.deadLettering.enabled = "on" }

ReChans ==
    { f \in AllChans :
        /\ f["A"] = Descriptor("A", Null, [enabled |-> "on", queueName |-> <<"DLQ">>,
                                           exchangeName |-> <<"DLX">>])
        /\ f["B"] = DefaultDescriptor("B") }

InitRe == InitWith(ReOpts, ReChans)

NextRe ==
    \/ \E t \in 1..MaxTasks : Connect(t)
    \/ \E t \in 1..MaxTasks, ok \in BOOLEAN : Connected(t, ok)
    \/ \E t \in 1..MaxTasks, ok \in BOOLEAN : ChannelCreated(t, ok)
    \/ \E t \in 1..MaxTasks : Reconnecting(t)
    \/ \E t \in 1..MaxTasks, ok \in BOOLEAN : ReplayAsserted(t, ok)
    \/ \E t \in 1..MaxTasks, ok \in BOOLEAN : ReplayConsumed(t, ok)
    \/ \E k \in 1..MaxConnections : ConnectionClosed(k)
    \/ \E c \in ChanIds : c \notin SubIds /\ ChannelUsable /\ SubscribeCall(c)
    \/ \E c \in ChanIds, ok \in BOOLEAN : SubscribeAsserted(c, ok)
    \/ \E c \in ChanIds, ok \in BOOLEAN : SubscribeConsumed(c, ok)
    \/ "A" \in SubIds /\ ChannelUsable /\ Publish("A", "p1", "", "", TRUE)
    \/ \E c \in ChanIds, tag \in 1..MaxTags : Receive(c, tag, TRUE)
    \/ \E i \in 1..MaxDeliveries, ok \in BOOLEAN : Settle(i, ok, TRUE)

SpecRe == InitRe /\ [][NextRe]_vars

\* The connection life cycle without subscriptions: connect with refused
\* attempts and failed channel creations, connection loss and reconnection,
\* one disconnect(), and publish() calls at any moment with either answer of
\* the transport.
NextConn ==
    \/ \E t \in 1..MaxTasks : Connect(t)
    \/ \E t \in 1..MaxTasks, ok \in BOOLEAN : Connected(t, ok)
    \/ \E t \in 1..MaxTasks, ok \in BOOLEAN : ChannelCreated(t, ok)
    \/ \E t \in 1..MaxTasks : Reconnecting(t)
    \/ \E k \in 1..MaxConnections : ConnectionClosed(k)
    \/ discCall.res = "none" /\ DisconnectCall
    \/ DisconnectClosed
    \/ \E res \in BOOLEAN : Publish("A", "p1", "", "", res)

SpecConn == InitSub /\ [][NextConn]_vars

\* Connecting with a URL list: attempts are refused or accepted, channel
\* creation may fail, connections are lost and re-established.
UrlOpts ==
    { o \in AllOpts : /\ o.urls > 0 /\ o.maxRetries = 1 /\ o.prefix = NoName
                      /\ o.deadLettering.enabled = "off" }

InitUrl == InitWith(UrlOpts, SubChans)

NextUrl ==
    \/ \E t \in 1..MaxTasks : Connect(t)
    \/ \E t \in 1..MaxTasks, ok \in BOOLEAN : Connected(t, ok)
    \/ \E t \in 1..MaxTasks, ok \in BOOLEAN : ChannelCreated(t, ok)
    \/ \E t \in 1..MaxTasks : Reconnecting(t)
    \/ \E k \in 1..MaxConnections : ConnectionClosed(k)

SpecUrl == InitUrl /\ [][NextUrl]_vars

\* Topology and subscriptions over a connection that may be lost: subscribes
\* whose assert or consume fails, reconnection with replay.
NextTopo ==
    \/ \E t \in 1..MaxTasks : Connect(t)
    \/ \E t \in 1..MaxTasks : Connected(t, TRUE)
    \/ \E t \in 1..MaxTasks : ChannelCreated(t, TRUE)
    \/ \E t \in 1..MaxTasks : Reconnecting(t)
    \/ \E t \in 1..MaxTasks, ok \in BOOLEAN : ReplayAsserted(t, ok)
    \/ \E t \in 1..MaxTasks, ok \in BOOLEAN : ReplayConsumed(t, ok)
    \/ \E k \in 1..MaxConnections : ConnectionClosed(k)
    \/ \E c \in ChanIds : c \notin SubIds /\ SubscribeCall(c)
    \/ \E c \in ChanIds, ok \in BOOLEAN : SubscribeAsserted(c, ok)
    \/ \E c \in ChanIds, ok \in BOOLEAN : SubscribeConsumed(c, ok)

TopoOpts ==
    { o \in AllOpts : /\ o.urls = 0 /\ o.maxRetries = 1
                      /\ o.deadLettering.enabled = "off" }

InitTopo == InitWith(TopoOpts, SubChans)

SpecTopo == InitTopo /\ [][NextTopo]_vars

\* Shutdown paths: channel A is subscribed and handles messages with distinct
\* ids; the connection may be lost and re-established with replay; the
\* application unsubscribes A and calls disconnect() at any moment.
NextStop ==
    \/ \E t \in 1..MaxTasks : Connect(t)
    \/ \E t \in 1..MaxTasks : Connected(t, TRUE)
    \/ \E t \in 1..MaxTasks : ChannelCreated(t, TRUE)
    \/ \E t \in 1..MaxTasks : Reconnecting(t)
    \/ \E t \in 1..MaxTasks : ReplayAsserted(t, TRUE)
    \/ \E t \in 1..MaxTasks : ReplayConsumed(t, TRUE)
    \/ \E k \in 1..MaxConnections : ConnectionClosed(k)
    \/ "A" \notin SubIds /\ ChannelUsable /\ SubscribeCall("A")
    \/ SubscribeAsserted("A", TRUE)
    \/ SubscribeConsumed("A", TRUE)
    \/ "A" \in SubIds /\ ChannelUsable /\ Publish("A", "p1", "", "", TRUE)
    \/ \E tag \in 1..MaxTags : Receive("A", tag, TRUE)
    \/ \E i \in 1..MaxDeliveries, ok \in BOOLEAN : Settle(i, ok, TRUE)
    \/ unsubCall["A"].res = "none" /\ UnsubscribeCall("A")
    \/ UnsubscribeCancelled("A")
    \/ UnsubscribePoll("A")
    \/ discCall.res = "none" /\ DisconnectCall
    \/ DisconnectClosed

SpecStop == InitSub /\ [][NextStop]_vars

\* Repeated subscribes: the application may call subscribe(chan) again for a
\* descriptor that is subscribed already; the connection may be lost and
\* re-established with replay.
NextDup ==
    \/ \E t \in 1..MaxTasks : Connect(t)
    \/ \E t \in 1..MaxTasks : Connected(t, TRUE)
    \/ \E t \in 1..MaxTasks : ChannelCreated(t, TRUE)
    \/ \E t \in 1..MaxTasks : Reconnecting(t)
    \/ \E t \in 1..MaxTasks : ReplayAsserted(t, TRUE)
    \/ \E t \in 1..MaxTasks : ReplayConsumed(t, TRUE)
    \/ \E k \in 1..MaxConnections : ConnectionClosed(k)
    \/ \E c \in ChanIds : ChannelUsable /\ SubscribeCall(c)
    \/ \E c \in ChanIds : SubscribeAsserted(c, TRUE)
    \/ \E c \in ChanIds : SubscribeConsumed(c, TRUE)

SpecDup == InitSub /\ [][NextDup]_vars

\* Reconnection under fairness. The broker disturbs the adapter (a lost
\* connection, a refused attempt, a failed channel creation, assert or consume)
\* only while the bounds leave room for one more attempt and one more
\* connection; timers fire and the broker answers every pending call.
CanRecover == nextConn <= MaxConnections /\ Len(attempts) < MaxAttempts

Progress(t) ==
    \/ Reconnecting(t)
    \/ Connected(t, TRUE)
    \/ ChannelCreated(t, TRUE)
    \/ ReplayAsserted(t, TRUE)
    \/ ReplayConsumed(t, TRUE)

Disturb(t) ==
    /\ CanRecover
    /\ \/ Connected(t, FALSE)
       \/ ChannelCreated(t, FALSE)
       \/ ReplayAsserted(t, FALSE)
       \/ ReplayConsumed(t, FALSE)

NextLive ==
    \/ \E t \in 1..MaxTasks : Connect(t)
    \/ \E t \in 1..MaxTasks : Progress(t)
    \/ \E t \in 1..MaxTasks : Disturb(t)
    \/ \E k \in 1..MaxConnections : CanRecover /\ ConnectionClosed(k)
    \/ \E c \in ChanIds : c \notin SubIds /\ ChannelUsable /\ SubscribeCall(c)
    \/ \E c \in ChanIds : SubscribeAsserted(c, TRUE)
    \/ \E c \in ChanIds : SubscribeConsumed(c, TRUE)

SpecLive ==
    /\ InitSub
    /\ [][NextLive]_vars
    /\ \A t \in 1..MaxTasks : WF_vars(Progress(t))

\* ----------------------------------------------------------- the whole adapter
Next ==
    \/ \E t \in 1..MaxTasks : Connect(t)
    \/ \E t \in 1..MaxTasks, ok \in BOOLEAN : Connected(t, ok)
    \/ \E t \in 1..MaxTasks, ok \in BOOLEAN : ChannelCreated(t, ok)
    \/ \E t \in 1..MaxTasks : Reconnecting(t)
    \/ \E t \in 1..MaxTasks, ok \in BOOLEAN : ReplayAsserted(t, ok)
    \/ \E t \in 1..MaxTasks, ok \in BOOLEAN : ReplayConsumed(t, ok)
    \/ \E k \in 1..MaxConnections : ConnectionClosed(k)
    \/ \E c \in ChanIds : SubscribeCall(c)
    \/ \E c \in ChanIds, ok \in BOOLEAN : SubscribeAsserted(c, ok)
    \/ \E c \in ChanIds, ok \in BOOLEAN : SubscribeConsumed(c, ok)
    \/ \E c \in ChanIds, payload \in Payloads, corr \in CorrIds, custom \in {"", "h"},
          res \in BOOLEAN : Publish(c, payload, corr, custom, res)
    \/ \E c \in ChanIds, tag \in 1..MaxTags, res \in BOOLEAN : Receive(c, tag, res)
    \/ \E i \in 1..MaxDeliveries, ok \in BOOLEAN, res \in BOOLEAN : Settle(i, ok, res)
    \/ \E c \in ChanIds : UnsubscribeCall(c)
    \/ \E c \in ChanIds : UnsubscribeCancelled(c)
    \/ \E c \in ChanIds : UnsubscribePoll(c)
    \/ DisconnectCall
    \/ DisconnectClosed

Spec == Init /\ [][Next]_vars

\* ------------------------------------------------------------------ history
Delivered == 1..Len(deliveries)

Lineage(i) == {j \in Delivered : deliveries[j].msg.lin = deliveries[i].msg.lin}

\* the position of delivery i among the deliveries of its message
Attempt(i) == Cardinality({j \in Lineage(i) : j <= i})

HandlerFailed(i) == deliveries[i].state = "settled" /\ ~deliveries[i].ok

OpsOf(i, kind) ==
    {j \in 1..Len(deliveries[i].ops) : deliveries[i].ops[j].op = kind}

\* publishes to the channel's own queue through the default exchange
RetryPublishes(i) ==
    {j \in OpsOf(i, "publish") :
        /\ deliveries[i].ops[j].exchange = NoName
        /\ deliveries[i].ops[j].routingKey =
              <<chan[deliveries[i].c].group>> \o chan[deliveries[i].c].name}

\* publishes that carry x-original-channel
DeadLetterPublishes(i) ==
    {j \in OpsOf(i, "publish") : deliveries[i].ops[j].headers.xorig # NoName}

Accepted(i, js) == {j \in js : deliveries[i].ops[j].res}

Republished(i) == {j \in Lineage(i) : Accepted(j, RetryPublishes(j)) # {}}

MaxRetriesOf(i) == chan[deliveries[i].c].maxRetries

DeadLetteringOf(i) == chan[deliveries[i].c].deadLettering

CountOf(i) == IF deliveries[i].msg.headers.xcount = 0 THEN 1
              ELSE deliveries[i].msg.headers.xcount

Exhausted(i) == HandlerFailed(i) /\ MaxRetriesOf(i) > 0 /\ CountOf(i) >= MaxRetriesOf(i)

\* ------------------------------------------------------------------- claims

\* C1: with maxRetries = N > 0 and a handler that fails on every delivery, the
\* message is republished to its own queue N-1 times and never an N-th time,
\* its count reaches N, the handler runs N times, and the N-th failed delivery
\* takes the exhausted outcome (dead-letter publish if enabled, else nack).
C1_RetryBudget ==
    \A i \in Delivered :
        LET N == MaxRetriesOf(i)
        IN (N > 0 /\ deliveries[i].invoked) =>
            /\ Cardinality(Republished(i)) <= N - 1
            /\ Cardinality(Lineage(i)) <= N
            /\ CountOf(i) = Attempt(i)
            /\ CountOf(i) <= N
            /\ (HandlerFailed(i) /\ CountOf(i) < N) =>
                  /\ Cardinality(RetryPublishes(i)) = 1
                  /\ DeadLetterPublishes(i) = {}
                  /\ OpsOf(i, "nack") = {}
            /\ (HandlerFailed(i) /\ CountOf(i) = N) =>
                  /\ Cardinality(Lineage(i)) = N
                  /\ Cardinality(Republished(i)) = N - 1
                  /\ RetryPublishes(i) = {}
                  /\ IF DeadLetteringOf(i).enabled = "on"
                     THEN Cardinality(DeadLetterPublishes(i)) = 1 /\ OpsOf(i, "nack") = {}
                     ELSE Cardinality(OpsOf(i, "nack")) = 1 /\ OpsOf(i, "publish") = {}

C1_Witness ==
    \E i \in Delivered :
        /\ MaxRetriesOf(i) = 3 /\ deliveries[i].invoked
        /\ HandlerFailed(i) /\ CountOf(i) = 3

\* C2: with a zero or absent maxRetries a failed message is dropped: the only
\* call for that delivery is a nack without requeue (no retry copy, no
\* dead-letter publish, no ack), and the message is not delivered again.
C2_DropWithoutRetry ==
    \A i \in Delivered :
        (HandlerFailed(i) /\ MaxRetriesOf(i) \in {Null, 0}) =>
            /\ Len(deliveries[i].ops) = 1
            /\ deliveries[i].ops[1].op = "nack"
            /\ ~deliveries[i].ops[1].requeue
            /\ \A j \in Lineage(i) : j <= i

\* C3: with maxRetries = N > 0, a message whose handler first succeeds on
\* attempt k <= N is acknowledged on the delivery that carries count k, and no
\* delivery of that message is nacked or published to the dead-letter destination.
C3_AckOnSuccess ==
    \A i \in Delivered :
        (deliveries[i].state = "settled" /\ deliveries[i].ok /\ MaxRetriesOf(i) > 0) =>
            /\ CountOf(i) = Attempt(i)
            /\ CountOf(i) <= MaxRetriesOf(i)
            /\ Len(deliveries[i].ops) = 1
            /\ deliveries[i].ops[1].op = "ack"
            /\ deliveries[i].ops[1].ch = deliveries[i].ch
            /\ deliveries[i].broker = "settled"
            /\ \A j \in Lineage(i) :
                  /\ j <= i
                  /\ OpsOf(j, "nack") = {}
                  /\ DeadLetterPublishes(j) = {}

C3_Witness ==
    \E i \in Delivered :
        /\ deliveries[i].state = "settled" /\ deliveries[i].ok
        /\ MaxRetriesOf(i) = 3 /\ Attempt(i) = 2

\* C4: an exhausted message of a channel with dead-lettering enabled, whose
\* publish the transport accepted, is published exactly once, to the routing key
\* deadLettering.queueName on deadLettering.exchangeName (the default exchange
\* when there is none), with the original bytes and x-original-channel set to
\* the channel name; the delivery is acknowledged, after that publish.
C4_DeadLetterPublish ==
    \A i \in Delivered :
        (Exhausted(i) /\ DeadLetteringOf(i).enabled = "on" /\ ~deliveries[i].threw) =>
            LET ops == deliveries[i].ops
            IN /\ Len(ops) = 2
               /\ ops[1].op = "publish" /\ ops[1].res
               /\ ops[1].exchange = DeadLetteringOf(i).exchangeName
               /\ ops[1].routingKey = DeadLetteringOf(i).queueName
               /\ ops[1].routingKey # NoName
               /\ ops[1].content = deliveries[i].msg.content
               /\ ops[1].headers.xorig = chan[deliveries[i].c].name
               /\ ops[2].op = "ack" /\ ops[2].ch = deliveries[i].ch

C4_Witness ==
    \E i \in Delivered :
        /\ Exhausted(i) /\ DeadLetteringOf(i).enabled = "on" /\ ~deliveries[i].threw
        /\ MaxRetriesOf(i) = 2 /\ Attempt(i) = 2
        /\ DeadLetteringOf(i).exchangeName = NoName

\* C5: when the dead-letter publish of an exhausted message returns false, the
\* handler throws and the delivery is neither acked nor nacked: the broker
\* still holds the message.
C5_DeadLetterBackpressure ==
    \A i \in Delivered :
        (Exhausted(i) /\ DeadLetteringOf(i).enabled = "on"
            /\ \E j \in DeadLetterPublishes(i) : ~deliveries[i].ops[j].res) =>
            /\ deliveries[i].threw
            /\ OpsOf(i, "ack") = {}
            /\ OpsOf(i, "nack") = {}
            /\ deliveries[i].broker = "unacked"

C5_Witness ==
    \E i \in Delivered :
        /\ Exhausted(i) /\ DeadLetteringOf(i).enabled = "on"
        /\ \E j \in DeadLetterPublishes(i) : ~deliveries[i].ops[j].res

\* C6: an exhausted message of a channel without dead-lettering is nacked
\* without requeue and nothing is published for it; it was delivered maxRetries
\* times in total (3 for maxRetries = 3) and no delivery of it published to a
\* dead-letter destination; with maxRetries > 0 no delivery is nacked earlier.
C6_DropWhenExhausted ==
    \A i \in Delivered :
        /\ (Exhausted(i) /\ DeadLetteringOf(i).enabled # "on") =>
              /\ Len(deliveries[i].ops) = 1
              /\ deliveries[i].ops[1].op = "nack"
              /\ ~deliveries[i].ops[1].requeue
              /\ deliveries[i].broker = "settled"
              /\ Cardinality(Lineage(i)) = MaxRetriesOf(i)
              /\ \A j \in Lineage(i) : DeadLetterPublishes(j) = {}
        /\ (MaxRetriesOf(i) > 0 /\ OpsOf(i, "nack") # {}) => Exhausted(i)

C6_Witness ==
    \E i \in Delivered :
        /\ Exhausted(i) /\ DeadLetteringOf(i).enabled # "on"
        /\ MaxRetriesOf(i) = 3 /\ Cardinality(Lineage(i)) = 3

Handling(c) ==
    {i \in Delivered : deliveries[i].c = c /\ deliveries[i].state = "handling"}

\* C8: for every subscribed channel the tracker is empty exactly when no
\* message of that channel is inside its handler.
C8_TrackerMatchesHandlers ==
    \A c \in SubIds : (activeMessages[c] = {}) <=> (Handling(c) = {})

Replaying(t) == connTask[t].pc \in {"replayAssert", "replayConsume"}

\* C9: across reconnects the queue, exchange and dead-letter names of every
\* descriptor in the subscription table stay what they were, and a replay that
\* completes leaves every descriptor of the table with a consumer on the new
\* channel.
C9_ReplayKeepsNames ==
    [][\A c \in SubIds :
          /\ chan'[c].name = chan[c].name
          /\ chan'[c].group = chan[c].group
          /\ chan'[c].deadLettering = chan[c].deadLettering
          /\ \A t \in 1..MaxTasks :
                (Replaying(t) /\ connTask'[t].pc = "idle") =>
                    \E x \in consumers' : x.c = c /\ x.ch = channel']_vars

\* C10: a replay pass is left only after its last entry: when the re-subscribe
\* of one entry fails, the entries after it are still attempted in that pass.
C10_ReplayIndependent ==
    [][\A t \in 1..MaxTasks :
          (Replaying(t) /\ ~Replaying(t)') => Len(connTask[t].todo) = 1]_vars

\* C11: a publish() call made while stopping is set returns without error,
\* calls neither the serializer nor channel.publish, and changes nothing of the
\* adapter or of the broker.
C11_PublishWhileStopping ==
    [][(stopping /\ published' = published + 1) =>
          /\ pubCall'.res = "noop"
          /\ pubCall'.serialized = 0
          /\ pubCall'.sent = 0
          /\ UNCHANGED <<adapterVars, chan, subscriptions, activeMessages, queues, bindings,
                         consumers, openConns, deliveries, nextTag, nextConn, subCall,
                         unsubCall, connTask, discCall, attempts>>]_vars

C11_Witness == stopping /\ pubCall.res = "noop" /\ channel \in openConns

\* C12: when channel.publish answers false (write buffer full) the publish()
\* call ends with the backpressure error, after exactly one channel.publish
\* call, and no message reaches a queue.
C12_BackpressureSurfaced ==
    [][(published' = published + 1 /\ pubCall'.full) =>
          /\ pubCall'.res = "backpressure"
          /\ pubCall'.sent = 1
          /\ pubCall'.serialized = 1
          /\ queues' = queues]_vars

C12_Witness == pubCall.full /\ pubCall.res = "backpressure"

\* the adapter has been connected and it is not connected now: disconnect()
\* has completed, or the connection was lost and is not re-established yet
Disconnected == connectionCount > 0 /\ ~connected

\* C13: a publish() call made while the adapter is disconnected is a silent
\* no-op: no error, nothing sent.
C13_PublishWhileDisconnected ==
    [][(Disconnected /\ published' = published + 1) =>
          /\ pubCall'.res = "noop"
          /\ pubCall'.sent = 0]_vars

\* C14: once disconnect() has been called, no reconnect timer (of the close
\* handler or of connect()'s retry loop) starts a connection attempt.
C14_StoppingCancelsReconnect ==
    [][(discCall.pc = "closing" \/ discCall.res = "ok") =>
          \A t \in 1..MaxTasks :
              ~(connTask[t].pc = "timer" /\ connTask'[t].pc = "connecting")]_vars

\* C16: when no connect() is in progress and the adapter is connected, there
\* is one open connection, this.connection, and the channel handle is a channel
\* of it.
C16_ConnectIdempotent ==
    ((\A t \in 1..MaxTasks : connTask[t].pc = "idle") /\ connected) =>
        /\ openConns = {connection}
        /\ channel = connection

\* C17: with a URL list of length L the k-th connection attempt of the
\* adapter's lifetime targets index (k-1) mod L, connectAttempt counts the
\* attempts, and any L consecutive attempts target every URL once.
C17_RoundRobin ==
    LET L == opts.urls
    IN L > 0 =>
        /\ connectAttempt = Len(attempts)
        /\ \A k \in 1..Len(attempts) : attempts[k] = (k - 1) % L
        /\ \A k \in 1..Len(attempts) :
              k + L - 1 <= Len(attempts) =>
                  {attempts[j] : j \in k..(k + L - 1)} = 0..(L - 1)

C17_Witness ==
    /\ opts.urls = 3 /\ Len(attempts) = 4 /\ attempts[4] = 0
    /\ \E t \in 1..MaxTasks : connTask[t].pc = "connecting"

\* the fresh adapter's connect() is at its fourth attempt: no connection was
\* ever opened, so the first three attempts failed
FourthAttempt == opts.urls = 2 /\ nextConn = 1 /\ Len(attempts) = 4

\* C18 as stated: with the list [host1, host2] (indices 0 and 1) and the first
\* three attempts failed, the fourth attempt targets host1.
C18_FourthTargetsHost1 == FourthAttempt => attempts[4] = 0

\* C18 amended: the attempts target host1, host2, host1, host2; the fourth
\* attempt targets host2 (the third one is the one that targets host1 again).
C18_FourthTargetsHost2 ==
    FourthAttempt => attempts = <<0, 1, 0, 1>>

C18_Witness == FourthAttempt /\ connectionCount = 0 /\ ~connected

\* C19: after unsubscribe(descriptor) has returned, the subscription table
\* holds no entry for the descriptor's id.
C19_UnsubscribeRemovesEntry ==
    \A c \in ChanIds : unsubCall[c].res = "ok" => c \notin SubIds

\* every entry of the subscription table has a live consumer with its tag
Replayed ==
    \A c \in SubIds :
        \E x \in consumers : x.c = c /\ x.tag = SubscriptionsGet(c).consumerTag

Recovered == connected /\ ChannelUsable /\ Replayed

\* C15: a connection that closes while the adapter is not stopping schedules
\* a reconnect, and under fairness the adapter is eventually connected again,
\* with a usable channel handle and its subscriptions replayed.
C15_EventuallyReconnected ==
    /\ [][(connected /\ ~connected' /\ ~stopping) =>
             \E t \in 1..MaxTasks : connTask[t].pc = "idle" /\ connTask'[t].pc = "timer"]_vars
    /\ (connectionCount > 0 /\ ~connected /\ ~stopping) ~> Recovered

C15_Witness ==
    /\ Recovered /\ connectionCount > 1 /\ SubIds = ChanIds
    /\ Len(attempts) > 2
    /\ \A t \in 1..MaxTasks : connTask[t].pc = "idle"

\* C20: a subscribe(descriptor) in which an assert or the consume fails ends
\* with the error thrown to its caller and leaves the subscription table as it
\* was; an entry for descriptor.id appears only with a subscribe that returned
\* normally, and then with a live consumer.
C20_SubscribeFailure ==
    [][\A c \in ChanIds :
          /\ (subCall'[c] # subCall[c] /\ faults' > faults) =>
                subCall'[c].res = "threw" /\ subscriptions' = subscriptions
          /\ (subCall'[c] # subCall[c] /\ subCall'[c].res = "threw") =>
                subscriptions' = subscriptions
          /\ (c \notin SubIds /\ c \in SubIds') =>
                /\ subCall[c].pc = "consume" /\ subCall'[c].res = "ok"
                /\ \E x \in consumers' : x.c = c /\ x.ch = subCall[c].ch]_vars

C20_Witness ==
    \E c \in ChanIds :
        subCall[c].res = "threw" /\ faults > 0 /\ Binding(c) \in bindings /\ c \notin SubIds

\* C21: however often the topology of a descriptor is asserted (a repeated
\* subscribe, a replay after a reconnect), the broker holds for it the one
\* exchange named descriptor.name, the one queue group.name and the one
\* binding between them, and an assert of a topology that exists fails only
\* when the broker fails it or the channel is gone.
C21_TopologyIdempotent ==
    [][/\ bindings' \subseteq {Binding(c)' : c \in ChanIds}
       /\ \A c \in ChanIds :
             /\ (c \in SubIds' \/ subCall'[c].pc = "consume") => Binding(c)' \in bindings'
             /\ (/\ subCall[c].pc = "assertQueue" /\ subCall'[c].res = "threw"
                 /\ Binding(c) \in bindings) =>
                   \/ faults' > faults
                   \/ subCall[c].ch \notin openConns
                   \/ ~ChannelUsable]_vars

C21_Witness ==
    \E c \in ChanIds :
        /\ connectionCount > 1 /\ c \in SubIds /\ Binding(c) \in bindings
        /\ opts.prefix # NoName
        /\ \E x \in consumers : x.c = c /\ x.ch = channel
        /\ Cardinality(bindings) = 1

C23_TrackedWhileHandled ==
    [][\A i \in 1..Len(deliveries') :
          LET d == deliveries'[i]
          IN /\ (i > Len(deliveries) /\ d.state = "handling") =>
                   d.invoked /\ d.id \in activeMessages'[d.c]
             /\ (/\ d.state = "settled"
                 /\ (i > Len(deliveries) \/ deliveries[i].state = "handling")) =>
                   d.id \notin activeMessages'[d.c]]_vars

C23_Witness ==
    /\ \E i \in Delivered :
          /\ deliveries[i].state = "settled" /\ deliveries[i].invoked
          /\ deliveries[i].threw /\ activeMessages[deliveries[i].c] = {}
    /\ \E i \in Delivered : ~deliveries[i].invoked

\* C24: unsubscribe returns only once every handler of the channel has
\* settled, so it never returns while one handler never settles.
C24_ReturnsOnlyWhenSettled ==
    [][\A c \in ChanIds :
          (unsubCall[c].res # "ok" /\ unsubCall'[c].res = "ok") =>
              Handling(c) = {}]_vars

\* C28: disconnect() does not close the connection or clear the channel
\* handle while the tracker of any channel holds a message.
C28_DisconnectDrains ==
    [][(discCall.pc = "closing" /\ channel # Null /\ channel' = Null) =>
          \A c \in ChanIds : activeMessages[c] = {}]_vars

Established(t) ==
    /\ connTask[t].pc = "createChannel"
    /\ channel # connTask[t].conn
    /\ channel' = connTask[t].conn

\* C26: connectionCount changes only when a connection and its channel are
\* established, and then by one; the task that established them replays the
\* subscriptions if and only if the count is then above 1, starting from the
\* whole table in insertion order, taking the entries one after the other, and
\* it completes the replay only after the last entry.
C26_ReplayOnReconnect ==
    [][/\ connectionCount' # connectionCount => \E t \in 1..MaxTasks : Established(t)
       /\ \A t \in 1..MaxTasks :
             /\ Established(t) =>
                   /\ connectionCount' = connectionCount + 1
                   /\ connectionCount' = 1 => connTask'[t] = NoTask
                   /\ Replaying(t)' =>
                         connectionCount' > 1 /\ connTask'[t].todo = SubscriptionIds
                   /\ (/\ connectionCount' > 1 /\ SubscriptionIds # <<>>
                       /\ connTask[t].conn \in openConns) => Replaying(t)'
             /\ (Replaying(t) /\ Replaying(t)') =>
                   connTask'[t].todo \in {connTask[t].todo, Tail(connTask[t].todo)}
             /\ (Replaying(t) /\ connTask'[t].pc = "idle") =>
                   Len(connTask[t].todo) = 1]_vars

C26_Witness ==
    /\ connectionCount = 2
    /\ SubscriptionIds = <<"B", "A">>
    /\ \A t \in 1..MaxTasks : connTask[t].pc = "idle"
    /\ \A c \in ChanIds : \E x \in consumers : x.c = c /\ x.ch = channel

\* C27: subscribe keeps a maxRetries the channel was given, an explicit 0
\* included, and takes the adapter's default only for an absent one; and a
\* channel whose effective maxRetries is 0 has no retries: no copy of a failed
\* message of it is published.
C27_EffectiveMaxRetries ==
    [][/\ \A c \in ChanIds :
             chan'[c].maxRetries =
                 IF chan[c].maxRetries = Null /\ chan'[c] # chan[c]
                 THEN opts.maxRetries ELSE chan[c].maxRetries
       /\ \A i \in 1..Len(deliveries') :
             (/\ deliveries'[i].state = "settled" /\ ~deliveries'[i].ok
              /\ chan'[deliveries'[i].c].maxRetries = 0) =>
                 \A j \in 1..Len(deliveries'[i].ops) :
                     deliveries'[i].ops[j].op # "publish"]_vars

\* C29: a delivery whose handler has settled got exactly one ack or nack
\* (never both, never neither) and at most one republished copy.
C29_SettledExactlyOnce ==
    \A i \in Delivered :
        deliveries[i].state = "settled" =>
            /\ Cardinality(OpsOf(i, "ack")) + Cardinality(OpsOf(i, "nack")) = 1
            /\ Cardinality(OpsOf(i, "publish")) <= 1

\* C30: every ack, nack and publish made for a delivery goes to the broker
\* channel that delivered it.
C30_SettledOnDeliveringChannel ==
    \A i \in Delivered :
        \A j \in 1..Len(deliveries[i].ops) :
            deliveries[i].ops[j].ch = deliveries[i].ch

ConsumersOf(c) == {x \in consumers : x.c = c /\ x.ch \in openConns}

\* C31: every channel id has at most one live consumer on the broker, and the
\* consumerTag the subscription table holds for that id is the tag of that
\* consumer.
C31_OneLiveConsumer ==
    \A c \in ChanIds :
        /\ Cardinality(ConsumersOf(c)) <= 1
        /\ \A x \in ConsumersOf(c) :
              c \in SubIds /\ SubscriptionsGet(c).consumerTag = x.tag

\* C32: stopping is set exactly while a disconnect() awaits the close; a
\* disconnect() called while it is set returns without changing the adapter
\* or the broker; and a disconnect() returns with stopping reset, the handles
\* null after a close that succeeded and unchanged after one that raised.
C32_StoppingWindow ==
    [][/\ stopping' <=> discCall'.pc = "closing"
       /\ (discCall.pc = "idle" /\ discCall'.pc = "closing") => ~stopping /\ stopping'
       /\ (stopping /\ discCall' # discCall /\ discCall'.pc = "closing") =>
             /\ discCall'.early
             /\ UNCHANGED <<adapterVars, brokerVars, chan, subscriptions, activeMessages,
                            connTask>>
       /\ (discCall.res = "none" /\ discCall'.res = "ok") =>
             /\ ~stopping'
             /\ discCall'.path = "closed" =>
                   /\ connection' = Null /\ channel' = Null
                   /\ discCall.conn \notin openConns'
             /\ discCall'.path = "threw" =>
                   /\ connection # Null
                   /\ connection' = connection /\ channel' = channel]_vars

C32_Witness ==
    /\ discCall.res = "ok" /\ discCall.path = "closed" /\ discCall.early
    /\ ~stopping /\ connection = Null /\ channel = Null /\ connectionCount > 0
====
